---- MODULE Spec2Model ----
(***************************************************************************)
(* Middleware composition of poem (poem/src/middleware/mod.rs).            *)
(*                                                                         *)
(* A pipeline is built once: middleware values are created, combined with  *)
(* combine / combine_if / EitherMiddleware::left / right / tuples, and     *)
(* attached to a base endpoint with `with`, which calls transform.  The    *)
(* finished endpoint then serves requests; the asynchronous `call` of the  *)
(* nested endpoints is modelled with an explicit stack of pending frames,  *)
(* one step per entry into a layer and one per resumption after `.await`.  *)
(*                                                                         *)
(* Every leaf middleware value carries an `id` (the identity of the Rust   *)
(* value); the endpoints a middleware produces remember it in `by`.  The   *)
(* ids take no part in the program's behaviour; they let the properties    *)
(* say which middleware's transform was called and whose wrapper a         *)
(* request went through.                                                   *)
(***************************************************************************)
EXTENDS Integers, Sequences, FiniteSets, TLC

\* Bounds of the model.
MaxMiddlewares == 3     \* leaf middleware values created while building
MaxNodes == 5           \* nodes of the middleware expressions being built
MaxRequests == 2        \* requests served by the finished pipeline

\* Inputs.  HeaderValues are the values SetHeader middlewares append, taken
\* in creation order; Requests are the outcomes of the base endpoint: "ok",
\* or the error it fails with.
HeaderValues == <<"a", "b", "c", "d", "e">>
Closures == {[header |-> "hello", value |-> "world"]}
Requests == {"ok", "e1"}
Bodies == {"abc"}

VARIABLES
    pc,         \* "build", "idle", "running", "done"
    mstack,     \* middleware expressions under construction (operand stack)
    created,    \* number of leaf middleware values created so far
    last,       \* the combinator call that produced the top of mstack
    base,       \* the endpoint the pipeline is built around
    attached,   \* the middleware given to `with`
    ep,         \* the finished pipeline: attached.transform(base)
    tlog,       \* transform calls made, in call order
    flog,       \* invocations of closures wrapped by make
    req,        \* the request being (or last) handled
    stack,      \* endpoints whose call is in progress, outermost first
    ret,        \* value returned by the innermost completed call
    entered,    \* layers entered by the current request, in order
    exited,     \* layers whose post-processing ran, in order
    resp,       \* result of the last finished request
    served      \* number of requests finished

vars == <<pc, mstack, created, last, base, attached, ep, tlog, flog,
          req, stack, ret, entered, exited, resp, served>>

buildVars == <<mstack, created, last>>
pipeVars == <<base, attached, ep, tlog, flog>>
reqVars == <<req, stack, ret, entered, exited, resp, served>>

-----------------------------------------------------------------------------
\* Values

NoMw == [kind |-> "None"]
NoEp == [ek |-> "None"]
NoResult == [none |-> TRUE]

Ok(body, headers) == [ok |-> TRUE, body |-> body, headers |-> headers]
Err(e) == [ok |-> FALSE, err |-> e]

IsOk(r) == r # NoResult /\ r.ok
IsErr(r) == r # NoResult /\ ~r.ok

\* Middleware values
Unit(i) == [kind |-> "Unit", id |-> i]
SetHeader(i, n, v) == [kind |-> "SetHeader", id |-> i, name |-> n, value |-> v]
FnMiddleware(i, f) == [kind |-> "Fn", id |-> i, f |-> f]
CombineMiddleware(a, b) == [kind |-> "Combine", a |-> a, b |-> b]
TupleMiddleware(ms) == [kind |-> "Tuple", ms |-> ms]

\* EitherMiddleware::left / EitherMiddleware::right
left(a) == [kind |-> "Either", tag |-> "A", m |-> a]
right(b) == [kind |-> "Either", tag |-> "B", m |-> b]

\* Middleware::combine
combine(self, other) == CombineMiddleware(self, other)

\* Mutants of combine_if: the flag ignored.
MutCombineIfAlways(self, enable, other) == right(combine(self, other))

MutCombineIfNever(self, enable, other) == left(self)

\* Middleware::combine_if
combine_if(self, enable, other) ==
    IF ~enable THEN left(self) ELSE right(combine(self, other))

\* make
make(i, f) == FnMiddleware(i, f)

\* Endpoint values
BaseEndpoint(body) == [ek |-> "Endpoint", body |-> body]
SetHeaderEndpoint(by, n, v, inner) ==
    [ek |-> "SetHeaderEndpoint", by |-> by, name |-> n, value |-> v, inner |-> inner]
AddHeader(by, h, v, inner) ==
    [ek |-> "AddHeader", by |-> by, header |-> h, value |-> v, inner |-> inner]
EitherEndpoint(tag, inner) == [ek |-> "EitherEndpoint", tag |-> tag, inner |-> inner]

\* The closure of test_make: |ep| AddHeader { ep, header, value }
ApplyClosure(i, f, e) == AddHeader(i, f.header, f.value, e)

-----------------------------------------------------------------------------
\* Structure of a middleware expression

RECURSIVE Nodes(_)
RECURSIVE NodesSeq(_, _)
NodesSeq(ms, i) == IF i > Len(ms) THEN 0 ELSE Nodes(ms[i]) + NodesSeq(ms, i + 1)

Nodes(m) ==
    CASE m.kind = "Combine" -> 1 + Nodes(m.a) + Nodes(m.b)
      [] m.kind = "Either" -> 1 + Nodes(m.m)
      [] m.kind = "Tuple" -> 1 + NodesSeq(m.ms, 1)
      [] OTHER -> 1

RECURSIVE Leaves(_)
RECURSIVE LeavesSeq(_, _)
LeavesSeq(ms, i) == IF i > Len(ms) THEN <<>> ELSE Leaves(ms[i]) \o LeavesSeq(ms, i + 1)

\* The ids of the leaf middlewares of m, left to right
Leaves(m) ==
    CASE m.kind = "Combine" -> Leaves(m.a) \o Leaves(m.b)
      [] m.kind = "Either" -> Leaves(m.m)
      [] m.kind = "Tuple" -> LeavesSeq(m.ms, 1)
      [] OTHER -> <<m.id>>

Range(s) == {s[i] : i \in 1..Len(s)}
Count(s, x) == Cardinality({i \in 1..Len(s) : s[i] = x})

-----------------------------------------------------------------------------
\* transform: the result carries the endpoint, the transform calls made
\* (tlog entries) and the closure invocations made (flog entries).

TR(e, calls, fcalls) == [ep |-> e, calls |-> calls, fcalls |-> fcalls]

RECURSIVE transform(_, _)

\* impl Middleware<E> for ()
UnitTransform(m, e) == TR(e, <<m.id>>, <<>>)

\* SetHeader: wraps the endpoint in a SetHeaderEndpoint
SetHeaderTransform(m, e) ==
    TR(SetHeaderEndpoint(m.id, m.name, m.value, e), <<m.id>>, <<>>)

\* Mutant of FnMiddleware::transform: the closure is never called.
MutFnTransformSkip(m, e) == TR(e, <<m.id>>, <<>>)

\* FnMiddleware::transform
FnTransform(m, e) ==
    TR(ApplyClosure(m.id, m.f, e), <<m.id>>, <<[id |-> m.id, arg |-> e]>>)

\* Mutant of CombineMiddleware::transform: a and b applied in the wrong order.
MutCombineTransformSwap(m, e) ==
    LET rb == transform(m.b, e)
        ra == transform(m.a, rb.ep)
    IN  TR(ra.ep, <<0>> \o rb.calls \o ra.calls, rb.fcalls \o ra.fcalls)

\* Mutant of CombineMiddleware::transform: a applied twice.
MutCombineTransformTwice(m, e) ==
    LET r0 == transform(m.a, e)
        ra == transform(m.a, r0.ep)
        rb == transform(m.b, ra.ep)
    IN  TR(rb.ep, <<0>> \o r0.calls \o ra.calls \o rb.calls,
           r0.fcalls \o ra.fcalls \o rb.fcalls)

\* Mutant of CombineMiddleware::transform: a left out.
MutCombineTransformDropA(m, e) ==
    LET rb == transform(m.b, e)
    IN  TR(rb.ep, <<0>> \o rb.calls, rb.fcalls)

\* CombineMiddleware::transform: self.b.transform(self.a.transform(ep))
CombineTransform(m, e) ==
    LET ra == transform(m.a, e)
        rb == transform(m.b, ra.ep)
    IN  TR(rb.ep, <<0>> \o ra.calls \o rb.calls, ra.fcalls \o rb.fcalls)

\* Mutant of EitherMiddleware::transform: the variants exchanged.
MutEitherTransformFlip(m, e) ==
    LET r == transform(m.m, e)
    IN  TR(EitherEndpoint(IF m.tag = "A" THEN "B" ELSE "A", r.ep),
           <<0>> \o r.calls, r.fcalls)

\* EitherMiddleware::transform
EitherTransform(m, e) ==
    LET r == transform(m.m, e)
    IN  CASE m.tag = "A" -> TR(EitherEndpoint("A", r.ep), <<0>> \o r.calls, r.fcalls)
          [] m.tag = "B" -> TR(EitherEndpoint("B", r.ep), <<0>> \o r.calls, r.fcalls)

RECURSIVE TupleFold(_, _, _)
TupleFold(ms, i, acc) ==
    IF i > Len(ms) THEN acc
    ELSE LET r == transform(ms[i], acc.ep)
         IN  TupleFold(ms, i + 1, TR(r.ep, acc.calls \o r.calls, acc.fcalls \o r.fcalls))

\* Tuples (T1, ..., Tn): each element in declaration order
TupleTransform(m, e) == TupleFold(m.ms, 1, TR(e, <<0>>, <<>>))

transform(m, e) ==
    CASE m.kind = "Unit" -> UnitTransform(m, e)
      [] m.kind = "SetHeader" -> SetHeaderTransform(m, e)
      [] m.kind = "Fn" -> FnTransform(m, e)
      [] m.kind = "Combine" -> CombineTransform(m, e)
      [] m.kind = "Either" -> EitherTransform(m, e)
      [] m.kind = "Tuple" -> TupleTransform(m, e)

-----------------------------------------------------------------------------
\* Endpoint::call, one layer at a time

\* The label under which a layer is logged: the id of the middleware that
\* made it, 0 for an EitherEndpoint, -1 for the base endpoint.
Label(e) ==
    CASE e.ek = "Endpoint" -> -1
      [] e.ek = "EitherEndpoint" -> 0
      [] OTHER -> e.by

\* HeaderMap::append and HeaderMap::insert on the list of header entries
RECURSIVE Without(_, _)
Without(hs, n) ==
    IF hs = <<>> THEN <<>>
    ELSE IF Head(hs)[1] = n THEN Without(Tail(hs), n)
         ELSE <<Head(hs)>> \o Without(Tail(hs), n)

HeaderAppend(hs, n, v) == Append(hs, <<n, v>>)
HeaderInsert(hs, n, v) == Append(Without(hs, n), <<n, v>>)

RECURSIVE GetAll(_, _)
GetAll(hs, n) ==
    IF hs = <<>> THEN <<>>
    ELSE IF Head(hs)[1] = n THEN <<Head(hs)[2]>> \o GetAll(Tail(hs), n)
         ELSE GetAll(Tail(hs), n)

\* The base endpoint: answers with its body, or fails with the error the
\* request provokes.
BaseCall(e, r) == IF r = "ok" THEN Ok(e.body, <<>>) ELSE Err(r)

\* Mutant of AddHeader::call: an inner error replaced by a response.
MutAddHeaderCallSwallow(e, r) ==
    IF IsErr(r) THEN Ok("", HeaderInsert(<<>>, e.header, e.value))
    ELSE Ok(r.body, HeaderInsert(r.headers, e.header, e.value))

\* tests::test_make::AddHeader::call, after self.ep.call(req).await
AddHeaderCall(e, r) ==
    IF IsErr(r) THEN r
    ELSE Ok(r.body, HeaderInsert(r.headers, e.header, e.value))

\* SetHeaderEndpoint::call of SetHeader::appending, after the inner call
SetHeaderEndpointCall(e, r) ==
    IF IsErr(r) THEN r
    ELSE Ok(r.body, HeaderAppend(r.headers, e.name, e.value))

\* EitherEndpoint::call: the stored variant's result, unchanged
EitherEndpointCall(e, r) == r

\* What layer e returns when its inner call returned r
Resumed(e, r) ==
    CASE e.ek = "AddHeader" -> AddHeaderCall(e, r)
      [] e.ek = "SetHeaderEndpoint" -> SetHeaderEndpointCall(e, r)
      [] e.ek = "EitherEndpoint" -> EitherEndpointCall(e, r)

\* Whether layer e has post-processing that runs on r
PostRuns(e, r) == e.ek \in {"AddHeader", "SetHeaderEndpoint"} /\ IsOk(r)

\* The whole call of endpoint e on request r
RECURSIVE call(_, _)
call(e, r) ==
    IF e.ek = "Endpoint" THEN BaseCall(e, r)
    ELSE Resumed(e, call(e.inner, r))

\* The layers a call of e enters, outermost first
RECURSIVE EnterOrder(_)
EnterOrder(e) ==
    IF e.ek = "Endpoint" THEN <<Label(e)>>
    ELSE <<Label(e)>> \o EnterOrder(e.inner)

\* The wrappers a call of e dispatches through (EitherEndpoints left out)
Wrappers(s) == SelectSeq(s, LAMBDA x : x > 0)

-----------------------------------------------------------------------------
\* Initial state

Init ==
    /\ pc = "build"
    /\ mstack = <<>>
    /\ created = 0
    /\ last = [op |-> "none", self |-> NoMw, other |-> NoMw, enable |-> FALSE]
    /\ base \in {BaseEndpoint(b) : b \in Bodies}
    /\ attached = NoMw
    /\ ep = NoEp
    /\ tlog = <<>>
    /\ flog = <<>>
    /\ req = "none"
    /\ stack = <<>>
    /\ ret = NoResult
    /\ entered = <<>>
    /\ exited = <<>>
    /\ resp = NoResult
    /\ served = 0

-----------------------------------------------------------------------------
\* Building the middleware expression

Top == mstack[Len(mstack)]
Second == mstack[Len(mstack) - 1]
Pop(s, n) == SubSeq(s, 1, Len(s) - n)

\* The expressions under construction may grow by n more nodes
Room(n) == NodesSeq(mstack, 1) + n <= MaxNodes
LastOp(op, self, other, enable) ==
    [op |-> op, self |-> self, other |-> other, enable |-> enable]

Push(m, op) ==
    /\ pc = "build"
    /\ created < MaxMiddlewares
    /\ Room(1)
    /\ created' = created + 1
    /\ mstack' = Append(mstack, m)
    /\ last' = op
    /\ UNCHANGED <<pc, pipeVars, reqVars>>

\* ()
NewUnit == Push(Unit(created + 1), LastOp("unit", NoMw, NoMw, FALSE))

\* The value the i-th middleware created appends: every SetHeader has a
\* marker of its own
Marker(i) == HeaderValues[((i - 1) % Len(HeaderValues)) + 1]

\* SetHeader::new().appending("myheader", v)
NewSetHeader ==
    Push(SetHeader(created + 1, "myheader", Marker(created + 1)),
         LastOp("new", NoMw, NoMw, FALSE))

\* make(f)
Make ==
    \E f \in Closures :
        Push(make(created + 1, f), LastOp("make", NoMw, NoMw, FALSE))

\* self.combine(other): self is below other on the operand stack
Combine ==
    /\ pc = "build"
    /\ Len(mstack) >= 2
    /\ Room(1)
    /\ mstack' = Append(Pop(mstack, 2), combine(Second, Top))
    /\ last' = LastOp("combine", Second, Top, FALSE)
    /\ UNCHANGED <<pc, created, pipeVars, reqVars>>

\* self.combine_if(enable, other)
CombineIf ==
    /\ pc = "build"
    /\ Len(mstack) >= 2
    /\ Room(2)
    /\ \E enable \in BOOLEAN :
        /\ mstack' = Append(Pop(mstack, 2), combine_if(Second, enable, Top))
        /\ last' = LastOp("combine_if", Second, Top, enable)
    /\ UNCHANGED <<pc, created, pipeVars, reqVars>>

\* EitherMiddleware::left(m)
Left ==
    /\ pc = "build"
    /\ Len(mstack) >= 1
    /\ Room(1)
    /\ mstack' = Append(Pop(mstack, 1), left(Top))
    /\ last' = LastOp("left", Top, NoMw, FALSE)
    /\ UNCHANGED <<pc, created, pipeVars, reqVars>>

\* EitherMiddleware::right(m)
Right ==
    /\ pc = "build"
    /\ Len(mstack) >= 1
    /\ Room(1)
    /\ mstack' = Append(Pop(mstack, 1), right(Top))
    /\ last' = LastOp("right", Top, NoMw, FALSE)
    /\ UNCHANGED <<pc, created, pipeVars, reqVars>>

\* (m1, ..., mn): the top n operands, in the order they were written
Tuple ==
    /\ pc = "build"
    /\ \E n \in 1..Len(mstack) :
        LET ms == SubSeq(mstack, Len(mstack) - n + 1, Len(mstack))
        IN  /\ Room(1)
            /\ mstack' = Append(Pop(mstack, n), TupleMiddleware(ms))
            /\ last' = LastOp("tuple", NoMw, NoMw, FALSE)
    /\ UNCHANGED <<pc, created, pipeVars, reqVars>>

\* base.with(m): EndpointExt::with calls m.transform(base)
With ==
    /\ pc = "build"
    /\ Len(mstack) = 1
    /\ LET r == transform(Top, base)
       IN  /\ ep' = r.ep
           /\ tlog' = tlog \o r.calls
           /\ flog' = flog \o r.fcalls
    /\ attached' = Top
    /\ mstack' = <<>>
    /\ pc' = "idle"
    /\ UNCHANGED <<created, last, base, reqVars>>

-----------------------------------------------------------------------------
\* Serving requests

Frame == stack[Len(stack)]

\* ep.call(req)
StartRequest ==
    /\ pc \in {"idle", "done"}
    /\ served < MaxRequests
    /\ \E r \in Requests : req' = r
    /\ stack' = <<ep>>
    /\ ret' = NoResult
    /\ entered' = <<>>
    /\ exited' = <<>>
    /\ resp' = NoResult
    /\ pc' = "running"
    /\ UNCHANGED <<buildVars, pipeVars, served>>

\* A wrapping layer is entered and calls its inner endpoint
CallInner ==
    /\ pc = "running"
    /\ ret = NoResult
    /\ stack # <<>>
    /\ Frame.ek # "Endpoint"
    /\ entered' = Append(entered, Label(Frame))
    /\ stack' = Append(stack, Frame.inner)
    /\ UNCHANGED <<pc, buildVars, pipeVars, req, ret, exited, resp, served>>

\* The base endpoint is entered and returns
CallBase ==
    /\ pc = "running"
    /\ ret = NoResult
    /\ stack # <<>>
    /\ Frame.ek = "Endpoint"
    /\ entered' = Append(entered, Label(Frame))
    /\ ret' = BaseCall(Frame, req)
    /\ stack' = Pop(stack, 1)
    /\ UNCHANGED <<pc, buildVars, pipeVars, req, exited, resp, served>>

\* The innermost pending layer resumes after its inner call returned
Resume ==
    /\ pc = "running"
    /\ ret # NoResult
    /\ stack # <<>>
    /\ ret' = Resumed(Frame, ret)
    /\ exited' = IF PostRuns(Frame, ret) THEN Append(exited, Label(Frame)) ELSE exited
    /\ stack' = Pop(stack, 1)
    /\ UNCHANGED <<pc, buildVars, pipeVars, req, entered, resp, served>>

\* The outermost call has returned
Finish ==
    /\ pc = "running"
    /\ ret # NoResult
    /\ stack = <<>>
    /\ resp' = ret
    /\ ret' = NoResult
    /\ served' = served + 1
    /\ pc' = "done"
    /\ UNCHANGED <<buildVars, pipeVars, req, stack, entered, exited>>

-----------------------------------------------------------------------------

Next ==
    \/ NewUnit
    \/ NewSetHeader
    \/ Make
    \/ Combine
    \/ CombineIf
    \/ Left
    \/ Right
    \/ Tuple
    \/ With
    \/ StartRequest
    \/ CallInner
    \/ CallBase
    \/ Resume
    \/ Finish

Spec == Init /\ [][Next]_vars

-----------------------------------------------------------------------------
\* Consistency of the model: the step-by-step call agrees with call().

TypeOK ==
    /\ pc \in {"build", "idle", "running", "done"}
    /\ created \in 0..MaxMiddlewares + 1
    /\ served \in 0..MaxRequests + 1
    /\ Len(mstack) <= created

StepwiseAgrees ==
    pc = "done" =>
        /\ resp = call(ep, req)
        /\ entered = EnterOrder(ep)

-----------------------------------------------------------------------------
\* Vocabulary of the properties

Built == pc # "build"
Done == pc = "done"

\* The pipeline has just been built and has served no request yet.  The
\* serving actions leave attached, ep, tlog and flog unchanged, so what holds
\* of them here holds for as long as the pipeline serves.
Fresh == pc = "idle"
Ids(m) == Range(Leaves(m))

\* The endpoint m.transform(base)
Wrapped(m) == transform(m, base).ep

\* Two endpoints handle every request identically: same result, same
\* wrappers entered in the same order.
SameBehaviour(e1, e2) ==
    /\ \A r \in Requests : call(e1, r) = call(e2, r)
    /\ Wrappers(EnterOrder(e1)) = Wrappers(EnterOrder(e2))

\* The request just finished went the way a call of endpoint e goes.
RunsLike(e) ==
    Done => /\ resp = call(e, req)
            /\ Wrappers(entered) = Wrappers(EnterOrder(e))

\* In log s every label of set X comes before every label of set Y
Before(s, X, Y) ==
    \A i, j \in 1..Len(s) : (s[i] \in X /\ s[j] \in Y) => i < j

-----------------------------------------------------------------------------
\* C1: a.combine(b).transform(ep) is b.transform(a.transform(ep)); every
\* request enters b's wrappers first, then a's, then the base endpoint, and
\* a's post-processing completes before b's, so that two appending
\* middlewares with distinct values leave a's value before b's.
C1_CombineOrder ==
    (Built /\ attached.kind = "Combine") =>
        LET a == attached.a
            b == attached.b
        IN  /\ Fresh => ep = transform(b, transform(a, base).ep).ep
            /\ Before(entered, Ids(b), Ids(a) \cup {-1})
            /\ Before(entered, Ids(a), {-1})
            /\ Before(exited, Ids(a), Ids(b))
            /\ (Done /\ req = "ok" /\ a.kind = "SetHeader" /\ b.kind = "SetHeader"
                  /\ a.value # b.value)
                 => /\ GetAll(resp.headers, "myheader") = <<a.value, b.value>>
                    /\ entered = <<b.id, a.id, -1>>
                    /\ exited = <<a.id, b.id>>

C1_Witness ==
    /\ Done /\ req = "ok"
    /\ attached.kind = "Combine"
    /\ attached.a.kind = "SetHeader" /\ attached.a.value = "a"
    /\ attached.b.kind = "SetHeader" /\ attached.b.value = "b"
    /\ GetAll(resp.headers, "myheader") = <<"a", "b">>
    /\ entered = <<attached.b.id, attached.a.id, -1>>

\* C2: a.combine_if(false, b) behaves for every request exactly as a alone:
\* b's transform is never called and no request goes through a wrapper of b.
C2_CombineIfFalse ==
    (last.op = "combine_if" /\ ~last.enable) =>
        /\ pc = "build" => Top = left(last.self)
        /\ Built =>
              /\ attached = left(last.self)
              /\ Fresh => SameBehaviour(ep, Wrapped(last.self))
              /\ RunsLike(Wrapped(last.self))
              /\ Ids(last.other) \cap Range(tlog) = {}
              /\ Ids(last.other) \cap Range(entered) = {}
              /\ Len(tlog) = Nodes(last.self) + 1

C2_Witness ==
    /\ Done /\ req = "ok"
    /\ last.op = "combine_if" /\ ~last.enable
    /\ last.self.kind = "SetHeader" /\ last.other.kind = "SetHeader"
    /\ last.self.value = "a" /\ last.other.value = "b"
    /\ GetAll(resp.headers, "myheader") = <<"a">>

\* C3: a.combine_if(true, b) is the right variant holding a.combine(b); its
\* transform applies a then b and every request is handled as by
\* a.combine(b).
C3_CombineIfTrue ==
    (last.op = "combine_if" /\ last.enable) =>
        /\ pc = "build" => Top = right(combine(last.self, last.other))
        /\ Built =>
              /\ attached = right(combine(last.self, last.other))
              /\ Fresh =>
                    /\ ep = EitherEndpoint("B",
                          transform(last.other, transform(last.self, base).ep).ep)
                    /\ SameBehaviour(ep, Wrapped(combine(last.self, last.other)))
              /\ RunsLike(Wrapped(combine(last.self, last.other)))

C3_Witness ==
    /\ Done /\ req = "ok"
    /\ last.op = "combine_if" /\ last.enable
    /\ last.self.kind = "SetHeader" /\ last.other.kind = "SetHeader"
    /\ last.self.value = "a" /\ last.other.value = "b"
    /\ GetAll(resp.headers, "myheader") = <<"a", "b">>

\* m1.combine(m2)...combine(mn)
RECURSIVE CombineAll(_, _)
CombineAll(ms, n) ==
    IF n = 1 THEN ms[1] ELSE combine(CombineAll(ms, n - 1), ms[n])

\* C4: a tuple (m1, ..., mn) transforms the endpoint through its elements
\* left to right, m1 innermost and mn outermost; it handles requests as
\* m1.combine(m2)...combine(mn) does.
C4_TupleOrder ==
    (Built /\ attached.kind = "Tuple") =>
        LET ms == attached.ms
            n == Len(ms)
        IN  /\ Fresh => /\ ep = Wrapped(CombineAll(ms, n))
                         /\ SameBehaviour(ep, Wrapped(CombineAll(ms, n)))
            /\ RunsLike(Wrapped(CombineAll(ms, n)))
            /\ \A i, j \in 1..n :
                  i < j => /\ Before(entered, Ids(ms[j]), Ids(ms[i]))
                           /\ Before(exited, Ids(ms[i]), Ids(ms[j]))

C4_Witness ==
    /\ Done /\ req = "ok"
    /\ attached.kind = "Tuple" /\ Len(attached.ms) = 3
    /\ \A i \in 1..3 : attached.ms[i].kind \in {"SetHeader", "Fn"}
    /\ entered = <<attached.ms[3].id, attached.ms[2].id, attached.ms[1].id, -1>>
    /\ exited = <<attached.ms[1].id, attached.ms[2].id, attached.ms[3].id>>

\* C5: a.combine(b).combine(c) and a.combine(b.combine(c)) produce endpoints
\* that handle every request identically.
C5_CombineAssociative ==
    /\ (Built /\ attached.kind = "Combine" /\ attached.a.kind = "Combine") =>
          LET other == combine(attached.a.a, combine(attached.a.b, attached.b))
          IN  /\ Fresh => /\ ep = Wrapped(other)
                           /\ SameBehaviour(ep, Wrapped(other))
              /\ RunsLike(Wrapped(other))
    /\ (Built /\ attached.kind = "Combine" /\ attached.b.kind = "Combine") =>
          LET other == combine(combine(attached.a, attached.b.a), attached.b.b)
          IN  /\ Fresh => /\ ep = Wrapped(other)
                           /\ SameBehaviour(ep, Wrapped(other))
              /\ RunsLike(Wrapped(other))

C5_Witness ==
    /\ Done /\ req = "ok"
    /\ attached.kind = "Combine" /\ attached.b.kind = "Combine"
    /\ attached.a.kind = "SetHeader" /\ attached.a.value = "a"
    /\ attached.b.a.kind = "SetHeader" /\ attached.b.a.value = "b"
    /\ attached.b.b.kind = "Fn"
    /\ exited = <<attached.a.id, attached.b.a.id, attached.b.b.id>>

\* C6: () returns the endpoint it is given, and ().combine(m) and
\* m.combine(()) produce the endpoint m alone produces.
C6_UnitIdentity ==
    /\ (Fresh /\ attached.kind = "Unit") => ep = base
    /\ (Built /\ attached.kind = "Combine" /\ attached.a.kind = "Unit") =>
          /\ Fresh => ep = Wrapped(attached.b)
          /\ RunsLike(Wrapped(attached.b))
    /\ (Built /\ attached.kind = "Combine" /\ attached.b.kind = "Unit") =>
          /\ Fresh => ep = Wrapped(attached.a)
          /\ RunsLike(Wrapped(attached.a))

C6_Witness ==
    /\ Done /\ req = "ok"
    /\ attached.kind = "Combine"
    /\ attached.a.kind = "SetHeader" /\ attached.b.kind = "Unit"
    /\ resp = Ok(base.body, <<<<"myheader", attached.a.value>>>>)

\* C7: left(m).transform(e) is the left EitherEndpoint holding
\* m.transform(e), right(m).transform(e) the right one; only m's transform
\* is called, and every request gets the result m.transform(e) gives.
C7_EitherPreservesBranch ==
    (Built /\ last.op \in {"left", "right"}) =>
        LET m == last.self
            tag == IF last.op = "left" THEN "A" ELSE "B"
        IN  /\ attached = [kind |-> "Either", tag |-> tag, m |-> m]
            /\ Fresh => /\ ep = EitherEndpoint(tag, Wrapped(m))
                         /\ SameBehaviour(ep, Wrapped(m))
            /\ tlog = <<0>> \o transform(m, base).calls
            /\ RunsLike(Wrapped(m))

C7_Witness ==
    /\ Done /\ req = "ok"
    /\ last.op = "right" /\ last.self.kind = "SetHeader"
    /\ ep.ek = "EitherEndpoint" /\ ep.tag = "B"
    /\ resp = Ok(base.body, <<<<"myheader", last.self.value>>>>)

\* C8: make(f).transform(e) is f(e): f is invoked exactly once, with e, and
\* its result is returned with no extra layer; a request sees f's header
\* and e's body.
C8_MakeAppliesClosure ==
    (Built /\ attached.kind = "Fn") =>
        /\ ep = ApplyClosure(attached.id, attached.f, base)
        /\ ep.inner = base
        /\ flog = <<[id |-> attached.id, arg |-> base]>>
        /\ (Done /\ req = "ok") =>
              resp = Ok(base.body, <<<<attached.f.header, attached.f.value>>>>)

C8_Witness ==
    /\ Done /\ req = "ok"
    /\ attached.kind = "Fn"
    /\ resp = Ok("abc", <<<<"hello", "world">>>>)

\* C9: building the pipeline calls the transform of every middleware in it
\* exactly once, and serving requests calls no transform: at any time after
\* construction the transform calls made are exactly those.
C9_TransformOncePerAttachment ==
    /\ pc = "build" => tlog = <<>>
    /\ Built =>
          /\ \A i \in Ids(attached) : Count(tlog, i) = 1
          /\ Range(tlog) \subseteq Ids(attached) \cup {0}
          /\ Len(tlog) = Nodes(attached)

C9_Witness ==
    /\ Done /\ served = MaxRequests
    /\ Nodes(attached) >= 4
    /\ Len(tlog) = Nodes(attached)

\* C10: when the base endpoint fails, every layer returns that same error
\* and runs no post-processing; the layers add no failure of their own.
C10_ErrorsPassThrough ==
    /\ (pc \in {"running", "done"} /\ req # "ok") =>
          /\ ret # NoResult => ret = Err(req)
          /\ exited = <<>>
          /\ Done => resp = Err(req)
    /\ (pc \in {"running", "done"} /\ req = "ok") =>
          /\ ret # NoResult => (IsOk(ret) /\ ret.body = base.body)
          /\ Done => (IsOk(resp) /\ resp.body = base.body)

C10_Witness ==
    /\ Done /\ req = "e1"
    /\ resp = Err("e1")
    /\ Len(entered) >= 4
    /\ \E i \in 1..Len(entered) : entered[i] = 0
    /\ ep.ek = "AddHeader"

====
